---- MODULE Spec2Model ----
(***************************************************************************)
(* Model of tensorpack/coupled.py: the CoupledTensor object (factor        *)
(* matrices and weights in self.x, the cached unfoldings in self.unfold)   *)
(* over an xarray Dataset, and its methods initialize, to_CPTensor,        *)
(* calcR2X, reconstruct, khatri_rao and perform_CP.                        *)
(*                                                                         *)
(* Conventions.  A float is a record [fin, val]: fin = FALSE is NaN.  A    *)
(* tensor is a function from index tuples (sequences of 0-based indices,   *)
(* as in numpy) to entries.  A matrix is a sequence of rows, a row a       *)
(* sequence of entries.  Arithmetic is exact (integers, quotients kept as  *)
(* numerator and denominator).  The coordinates of the dataset are listed  *)
(* in the fixed order AxisOrder; a variable lists its axes in any order.   *)
(***************************************************************************)
EXTENDS Integers, Sequences, FiniteSets, TLC

\* ------------------------------------------------------------- bounds
MaxLen == 2
MaxRank == 2
MaxVal == 2
MaxIter == 2
MaxDimsSecond == 2

\* Axis names in the order of the dataset's coords mapping, and variable
\* names in the order of its data_vars mapping (genSample, lines 11-20).
AxisOrder == <<"month", "time", "state">>
VarOrder == <<"flop", "turn">>
Fills == {"finite", "holes", "empty"}
Methods == {"ones", "svd", "random"}

VARIABLES vars, dims, len, rank, data, unfold, x, last

vv == <<vars, dims, len, rank, data, unfold, x, last>>

\* ------------------------------------------------------------ helpers
Range(s) == {s[i] : i \in DOMAIN s}

Min(a, b) == IF a <= b THEN a ELSE b

RECURSIVE Prod(_)
Prod(s) == IF s = <<>> THEN 1 ELSE Head(s) * Prod(Tail(s))

\* list.index(e), 0-based
Index(s, e) == (CHOOSE i \in DOMAIN s : s[i] = e) - 1

\* the list without its element at 0-based position p
Remove(s, p) == SubSeq(s, 1, p) \o SubSeq(s, p + 2, Len(s))

InsertAt(s, p, e) == SubSeq(s, 1, p) \o <<e>> \o SubSeq(s, p + 1, Len(s))

\* numpy's C-order unravelling of a flat index: the last axis varies fastest
RECURSIVE Unravel(_, _)
Unravel(c, lens) ==
    IF lens = <<>> THEN <<>>
    ELSE LET p == Prod(Tail(lens))
         IN  <<c \div p>> \o Unravel(c % p, Tail(lens))

\* every index tuple of an array of the given shape
RECURSIVE Indices(_)
Indices(shape) ==
    IF shape = <<>> THEN {<<>>}
    ELSE {<<i>> \o t : i \in 0 .. (Head(shape) - 1), t \in Indices(Tail(shape))}

RECURSIVE SumSeq(_)
SumSeq(s) == IF s = <<>> THEN 0 ELSE Head(s) + SumSeq(Tail(s))

\* injective sequences over a set, of length 1 .. n
InjSeqs(S, n) ==
    UNION {{s \in [1 .. k -> S] : \A i, j \in 1 .. k : i # j => s[i] # s[j]} : k \in 1 .. n}

Fin(n) == [fin |-> TRUE, val |-> n]
NaN == [fin |-> FALSE, val |-> 0]

\* ------------------------------------------------------------ dataset
\* da.shape of a variable
ShapeOf(dm, ln, v) == [j \in 1 .. Len(dm[v]) |-> ln[dm[v][j]]]

\* list(data.coords): the dataset's dimension coordinates, in coords order
CoordList(vs, dm) ==
    SelectSeq(AxisOrder, LAMBDA a : \E i \in DOMAIN vs : a \in Range(dm[vs[i]]))

\* list(da.coords) of one variable: the dataset's coordinates that lie on the
\* variable's dimensions, in the dataset's coordinate order
DaCoords(dm, v) == SelectSeq(AxisOrder, LAMBDA a : a \in Range(dm[v]))

\* list(data.dims): dimensions in order of first use by the variables (older
\* xarray releases sort them by name; the order only decides which factor
\* matrices are already written when initialize raises part-way)
RECURSIVE DimList(_, _, _)
DimList(vs, dm, acc) ==
    IF vs = <<>> THEN acc
    ELSE DimList(Tail(vs), dm,
                 acc \o SelectSeq(dm[Head(vs)], LAMBDA a : a \notin Range(acc)))

\* tl.unfold(tensor, mode): moveaxis(mode, 0), then a C-order reshape to
\* (shape[mode], -1)
tl_unfold(t, shape, mode) ==
    LET rest == Remove(shape, mode)
    IN  [r \in 1 .. shape[mode + 1] |->
            [c \in 1 .. Prod(rest) |-> t[InsertAt(Unravel(c - 1, rest), mode, r - 1)]]]

\* np.concatenate(arrs, axis=1); the arrays must agree on the row count
RECURSIVE ConcatCols(_)
ConcatCols(arrs) ==
    IF Len(arrs) = 1 THEN arrs[1]
    ELSE LET rst == ConcatCols(Tail(arrs))
         IN  [r \in DOMAIN arrs[1] |-> arrs[1][r] \o rst[r]]

RECURSIVE UnfoldArrs(_, _, _, _, _)
UnfoldArrs(vs, dm, ln, ds, mode) ==
    IF vs = <<>> THEN <<>>
    ELSE LET v == Head(vs)
             rst == UnfoldArrs(Tail(vs), dm, ln, ds, mode)
         IN  IF mode \in Range(DaCoords(dm, v))
             THEN <<tl_unfold(ds[v], ShapeOf(dm, ln, v), Index(DaCoords(dm, v), mode))>> \o rst
             ELSE rst

xr_unfold(vs, dm, ln, ds, mode) ==
    LET arrs == UnfoldArrs(vs, dm, ln, ds, mode)
    IN  IF arrs = <<>> \/ \E i \in DOMAIN arrs : Len(arrs[i]) # Len(arrs[1])
        THEN [err |-> "ValueError", m |-> <<>>]
        ELSE [err |-> "", m |-> ConcatCols(arrs)]

\* the sample arrays: entry values 0 .. MaxVal, with one missing entry
\* ("holes") or with every entry missing ("empty")
Linear(idx, shape) == SumSeq([j \in DOMAIN idx |-> idx[j] * Prod(SubSeq(shape, j + 1, Len(shape)))])

SampleArray(shape, base, fill) ==
    [idx \in Indices(shape) |->
        IF fill = "empty" \/ (fill = "holes" /\ Linear(idx, shape) = 0)
        THEN NaN
        ELSE Fin((Linear(idx, shape) + base) % (MaxVal + 1))]

\* ------------------------------------------------------- construction
Ones(n, m) == [i \in 1 .. n |-> [r \in 1 .. m |-> 1]]

\* CoupledTensor.__init__ raises when an unfolding cannot be concatenated
Accepted(vs, dm, ln, ds) ==
    \A i \in DOMAIN CoordList(vs, dm) :
        xr_unfold(vs, dm, ln, ds, CoordList(vs, dm)[i]).err = ""

NoCall == [op |-> "none", arg |-> "", out |-> "", pre |-> <<>>]

Init ==
    \E n \in 1 .. Len(VarOrder) :
    \E dm \in [Range(VarOrder) -> InjSeqs(Range(AxisOrder), Len(AxisOrder))] :
    \E ln \in [Range(AxisOrder) -> 1 .. MaxLen] :
    \E fl \in [Range(VarOrder) -> Fills] :
    \E rk \in 1 .. MaxRank :
        LET vs == SubSeq(VarOrder, 1, n)
            used == Range(CoordList(vs, dm))
            ds == [v \in Range(vs) |->
                     SampleArray(ShapeOf(dm, ln, v), Index(VarOrder, v) + 1, fl[v])]
        IN  /\ \A i \in DOMAIN VarOrder : i > n => dm[VarOrder[i]] = <<AxisOrder[1]>>
            /\ \A i \in DOMAIN VarOrder : i > n => fl[VarOrder[i]] = "finite"
            /\ \A i \in 2 .. n : Len(dm[VarOrder[i]]) <= MaxDimsSecond
            /\ \A a \in Range(AxisOrder) \ used : ln[a] = 1
            /\ \A i \in 1 .. (n - 1) : fl[VarOrder[i]] = "finite"
            /\ Accepted(vs, dm, ln, ds)
            /\ vars = vs
            /\ dims = [v \in Range(vs) |-> dm[v]]
            /\ len = [a \in used |-> ln[a]]
            /\ rank = rk
            /\ data = ds
            /\ unfold = [a \in used |-> xr_unfold(vs, dm, ln, ds, a).m]
            /\ x = [fac |-> [a \in used |-> Ones(ln[a], rk)],
                    w |-> [v \in Range(vs) |-> [r \in 1 .. rk |-> 1]]]
            /\ last = NoCall

\* ---------------------------------------------------------- initialize
\* np.ones_like(self.x["#" + mmode]) written to every factor matrix
initialize_ones(fac) == [a \in DOMAIN fac |-> Ones(Len(fac[a]), rank)]

HasNaN(M) == \E r \in DOMAIN M : \E c \in DOMAIN M[r] : ~M[r][c].fin

RowSum(M, i) == SumSeq([c \in DOMAIN M[i] |-> M[i][c].val])

\* np.linalg.svd(M)[0]: the square matrix of left singular vectors, one row
\* per row of M.  The numbers are the library's; the model keeps a fixed
\* function of M with entries in -1 .. 1 in their place.  A matrix with a
\* NaN entry makes the routine raise LinAlgError.
svd_U(M) ==
    [i \in DOMAIN M |-> [j \in DOMAIN M |-> ((RowSum(M, i) + i + j) % 3) - 1]]

\* F[:, :k] = U[:, :k] with numpy's broadcasting rules
SliceCols(U, k) == [i \in DOMAIN U |-> SubSeq(U[i], 1, Min(k, Len(U[i])))]

CanAssign(F, V, k) ==
    /\ Len(V) = Len(F) \/ Len(V) = 1
    /\ Len(V[1]) = k \/ Len(V[1]) = 1

AssignCols(F, V, k) ==
    [i \in DOMAIN F |->
        [r \in DOMAIN F[i] |->
            IF r <= k
            THEN V[IF Len(V) = 1 THEN 1 ELSE i][IF Len(V[1]) = 1 THEN 1 ELSE r]
            ELSE F[i][r]]]

\* the loop of lines 76-78 over list(self.data.dims); an exception leaves
\* the factor matrices written so far as they are
RECURSIVE initialize_svd(_, _)
initialize_svd(fac, modes) ==
    IF modes = <<>> THEN [fac |-> fac, err |-> ""]
    ELSE LET mmode == Head(modes)
             k == Min(rank, len[mmode])
         IN  IF HasNaN(unfold[mmode]) THEN [fac |-> fac, err |-> "LinAlgError"]
             ELSE LET V == SliceCols(svd_U(unfold[mmode]), k)
                  IN  IF ~CanAssign(fac[mmode], V, k)
                      THEN [fac |-> fac, err |-> "ValueError"]
                      ELSE initialize_svd(
                               [fac EXCEPT ![mmode] = AssignCols(fac[mmode], V, k)],
                               Tail(modes))

OnesWeight == [v \in DOMAIN x.w |-> [r \in 1 .. rank |-> 1]]

initialize(method) ==
    LET modes == DimList(vars, dims, <<>>)
        r == IF method = "ones" THEN [fac |-> initialize_ones(x.fac), err |-> ""]
             ELSE IF method = "svd" THEN initialize_svd(x.fac, modes)
             ELSE [fac |-> x.fac, err |-> ""]
    IN  [x |-> [fac |-> r.fac, w |-> IF r.err = "" THEN OnesWeight ELSE x.w],
         out |-> IF r.err = "" THEN "None" ELSE r.err]

Initialize(method) ==
    /\ LET r == initialize(method)
       IN  /\ x' = r.x
           /\ last' = [op |-> "initialize", arg |-> method, out |-> r.out, pre |-> x]
    /\ UNCHANGED <<vars, dims, len, rank, data, unfold>>

\* ---------------------------------------------------------- khatri_rao
\* tl.tenalg.khatri_rao(matrices): a single matrix is returned as it is;
\* otherwise row k is the entrywise product of one row of each matrix, the
\* last matrix's row index varying fastest.  It reads matrices[0], so an
\* empty list raises IndexError.
tl_khatri_rao(mats) ==
    IF Len(mats) = 1 THEN mats[1]
    ELSE LET nrows == [j \in DOMAIN mats |-> Len(mats[j])]
         IN  [k \in 1 .. Prod(nrows) |->
                [r \in 1 .. rank |->
                    Prod([j \in DOMAIN mats |-> mats[j][Unravel(k - 1, nrows)[j] + 1][r]])]]

\* the factor matrices of a variable's axes other than mode, in self.dims order
OtherFactors(v, mode) ==
    LET others == SelectSeq(dims[v], LAMBDA a : a # mode)
    IN  [j \in DOMAIN others |-> x.fac[others[j]]]

RECURSIVE KrArrs(_, _)
KrArrs(vs, mode) ==
    IF vs = <<>> THEN [err |-> "", arrs |-> <<>>]
    ELSE LET v == Head(vs)
             rst == KrArrs(Tail(vs), mode)
         IN  IF mode \notin Range(dims[v]) THEN rst
             ELSE IF OtherFactors(v, mode) = <<>> THEN [err |-> "IndexError", arrs |-> <<>>]
             ELSE IF rst.err # "" THEN rst
             ELSE [err |-> "", arrs |-> <<tl_khatri_rao(OtherFactors(v, mode))>> \o rst.arrs]

\* np.concatenate(arrs, axis=0)
RECURSIVE ConcatRows(_)
ConcatRows(arrs) == IF arrs = <<>> THEN <<>> ELSE Head(arrs) \o ConcatRows(Tail(arrs))

khatri_rao(mode) ==
    IF mode \notin DOMAIN len THEN [out |-> "AssertionError", res |-> <<>>]
    ELSE LET r == KrArrs(vars, mode)
         IN  IF r.err # "" THEN [out |-> r.err, res |-> <<>>]
             ELSE [out |-> "ok", res |-> ConcatRows(r.arrs)]

KhatriRao(mode) ==
    /\ LET r == khatri_rao(mode)
       IN  last' = [op |-> "khatri_rao", arg |-> mode, out |-> r.out, pre |-> x,
                    res |-> r.res]
    /\ UNCHANGED <<vars, dims, len, rank, data, unfold, x>>

\* --------------------------------------------------------- to_CPTensor
\* CPTensor((weights, factors)): the variable's row of *Weight and the
\* factor matrices of its axes, in self.dims order
to_CPTensor(dvars) ==
    [weights |-> x.w[dvars],
     factors |-> [j \in DOMAIN dims[dvars] |-> x.fac[dims[dvars][j]]]]

\* CPTensor.to_tensor(): the sum over components of the weighted outer
\* products of the factors' columns (for a single factor, the weighted sum
\* of its columns)
to_tensor(cp) ==
    LET shape == [j \in DOMAIN cp.factors |-> Len(cp.factors[j])]
    IN  [idx \in Indices(shape) |->
            SumSeq([r \in DOMAIN cp.weights |->
                cp.weights[r] * Prod([j \in DOMAIN cp.factors |-> cp.factors[j][idx[j] + 1][r]])])]

ToCPTensor(dvars) ==
    /\ last' = IF dvars \in DOMAIN dims
               THEN [op |-> "to_CPTensor", arg |-> dvars, out |-> "ok", pre |-> x,
                     res |-> to_CPTensor(dvars)]
               ELSE [op |-> "to_CPTensor", arg |-> dvars, out |-> "AssertionError",
                     pre |-> x, res |-> <<>>]
    /\ UNCHANGED <<vars, dims, len, rank, data, unfold, x>>

\* ------------------------------------------------------------- calcR2X
RECURSIVE SumFn(_, _)
SumFn(f, S) ==
    IF S = {} THEN 0
    ELSE LET e == CHOOSE e \in S : TRUE
         IN  f[e] + SumFn(f, S \ {e})

isfinite(e) == e.fin
nan_to_num(e) == IF e.fin THEN e.val ELSE 0
Sq(n) == n * n

\* a variant of calcR2X_TnB that zero-fills the caller's array in place
calcR2X_TnB_inplace(tIn, tRecon) ==
    [top |-> SumFn([i \in DOMAIN tIn |->
                       Sq(tRecon[i] * (IF isfinite(tIn[i]) THEN 1 ELSE 0) - nan_to_num(tIn[i]))],
                   DOMAIN tIn),
     bot |-> SumFn([i \in DOMAIN tIn |-> Sq(nan_to_num(tIn[i]))], DOMAIN tIn),
     tIn |-> [i \in DOMAIN tIn |-> Fin(nan_to_num(tIn[i]))]]

\* calcR2X_TnB: vTop and vBottom; tIn is the caller's array after the call
\* (np.nan_to_num copies, so it is the array that was passed)
calcR2X_TnB(tIn, tRecon) ==
    [top |-> SumFn([i \in DOMAIN tIn |->
                       Sq(tRecon[i] * (IF isfinite(tIn[i]) THEN 1 ELSE 0) - nan_to_num(tIn[i]))],
                   DOMAIN tIn),
     bot |-> SumFn([i \in DOMAIN tIn |-> Sq(nan_to_num(tIn[i]))], DOMAIN tIn),
     tIn |-> tIn]

\* 1.0 - vTop / vBottom in numpy floats: 0/0 is nan and t/0 is inf, neither
\* raises; a finite value is kept as the pair (top, bot), standing for
\* 1 - top / bot
R2X(top, bot) ==
    IF bot # 0 THEN [kind |-> "num", top |-> top, bot |-> bot]
    ELSE IF top = 0 THEN [kind |-> "nan", top |-> 0, bot |-> 0]
    ELSE [kind |-> "-inf", top |-> 0, bot |-> 0]

\* the loop of lines 91-95: the running sums and the dataset after each call
RECURSIVE SumTnB(_, _)
SumTnB(vs, acc) ==
    IF vs = <<>> THEN acc
    ELSE LET v == Head(vs)
             r == calcR2X_TnB(acc.ds[v], to_tensor(to_CPTensor(v)))
         IN  SumTnB(Tail(vs), [top |-> acc.top + r.top, bot |-> acc.bot + r.bot,
                               ds |-> [acc.ds EXCEPT ![v] = r.tIn]])

\* a variant of the overall score: the unweighted mean of the per-variable
\* scores 1 - top/bot, as one quotient
RECURSIVE MeanTnB(_, _)
MeanTnB(vs, acc) ==
    IF vs = <<>> THEN acc
    ELSE LET v == Head(vs)
             r == calcR2X_TnB(acc.ds[v], to_tensor(to_CPTensor(v)))
         IN  MeanTnB(Tail(vs), [top |-> acc.top * r.bot + r.top * acc.bot,
                                bot |-> acc.bot * r.bot,
                                ds |-> [acc.ds EXCEPT ![v] = r.tIn]])

calcR2X_mean(ds) ==
    LET s == MeanTnB(vars, [top |-> 0, bot |-> 1, ds |-> ds])
    IN  [out |-> "ok", res |-> R2X(s.top, s.bot * Len(vars)), ds |-> s.ds]

\* calcR2X(): lines 90-96
calcR2X_overall(ds) ==
    LET s == SumTnB(vars, [top |-> 0, bot |-> 0, ds |-> ds])
    IN  [out |-> "ok", res |-> R2X(s.top, s.bot), ds |-> s.ds]

\* calcR2X(dvars): lines 98-100
calcR2X_one(ds, dvars) ==
    IF dvars \notin DOMAIN dims THEN [out |-> "AssertionError", res |-> <<>>, ds |-> ds]
    ELSE LET r == calcR2X_TnB(ds[dvars], to_tensor(to_CPTensor(dvars)))
         IN  [out |-> "ok", res |-> R2X(r.top, r.bot), ds |-> [ds EXCEPT ![dvars] = r.tIn]]

\* the argument "" stands for None
calcR2X(ds, dvars) == IF dvars = "" THEN calcR2X_overall(ds) ELSE calcR2X_one(ds, dvars)

CalcR2X(dvars) ==
    /\ LET r == calcR2X(data, dvars)
       IN  /\ last' = [op |-> "calcR2X", arg |-> dvars, out |-> r.out, pre |-> x,
                        res |-> r.res]
           /\ data' = r.ds
    /\ UNCHANGED <<vars, dims, len, rank, unfold, x>>

\* --------------------------------------------------------- reconstruct
\* reconstruct(): line 107 reads self.data.data_dvars, which no Dataset has.
\* reconstruct(dvars): the DataArray of lines 118-123, its dimensions taken
\* from the keys of coords.
reconstruct(ds, dvars) ==
    IF dvars = "" THEN [out |-> "AttributeError", res |-> <<>>, ds |-> ds]
    ELSE IF dvars \notin DOMAIN dims THEN [out |-> "AssertionError", res |-> <<>>, ds |-> ds]
    ELSE LET r == calcR2X(ds, dvars)
         IN  [out |-> "ok",
              res |-> [name |-> dvars, coords |-> dims[dvars],
                       data |-> to_tensor(to_CPTensor(dvars)),
                       R2X |-> r.res],
              ds |-> r.ds]

Reconstruct(dvars) ==
    /\ LET r == reconstruct(data, dvars)
       IN  /\ last' = [op |-> "reconstruct", arg |-> dvars, out |-> r.out, pre |-> x,
                        res |-> r.res]
           /\ data' = r.ds
    /\ UNCHANGED <<vars, dims, len, rank, unfold, x>>

\* ---------------------------------------------------------- perform_CP
\* The loop body names cpd, which is bound nowhere: the first sweep raises
\* NameError before anything is solved or written.  With maxiter = 0 the
\* loop is empty and the method returns None.  sweeps counts the loop
\* bodies entered, writes lists the axes whose factor matrix was written.
perform_CP(maxiter) ==
    [out |-> IF maxiter >= 1 THEN "NameError" ELSE "None",
     sweeps |-> Min(maxiter, 1),
     writes |-> <<>>,
     x |-> x]

PerformCP(maxiter) ==
    /\ LET r == perform_CP(maxiter)
       IN  /\ x' = r.x
           /\ last' = [op |-> "perform_CP", arg |-> "", out |-> r.out, pre |-> x,
                        maxiter |-> maxiter, sweeps |-> r.sweeps, writes |-> r.writes]
    /\ UNCHANGED <<vars, dims, len, rank, data, unfold>>

Next ==
    \/ \E method \in Methods : Initialize(method)
    \/ \E mode \in Range(AxisOrder) : KhatriRao(mode)
    \/ \E dvars \in Range(VarOrder) : ToCPTensor(dvars)
    \/ \E dvars \in Range(VarOrder) \cup {""} : CalcR2X(dvars)
    \/ \E dvars \in Range(VarOrder) \cup {""} : Reconstruct(dvars)
    \/ \E maxiter \in 0 .. MaxIter : PerformCP(maxiter)

Spec == Init /\ [][Next]_vv

\* The same object over the datasets whose variables use only the axes
\* month and time (in either order, shared or not).
TwoAxes == {"month", "time"}
InitTwoAxes == Init /\ DOMAIN len \subseteq TwoAxes
SpecTwoAxes == InitTwoAxes /\ [][Next]_vv

\* ============================================================== claims

\* the argument of the last call is an axis of the dataset
ArgIsAxis == last.arg \in DOMAIN len
ArgIsVar == last.arg \in DOMAIN dims

\* C1: after khatri_rao(a) on an axis a of the dataset, the call has
\* returned a matrix with as many rows as the cached unfold[a] has columns
\* (a variable whose only axis is a included).
C1_ShapesAgree ==
    (last.op = "khatri_rao" /\ ArgIsAxis) =>
        /\ last.out = "ok"
        /\ Len(last.res) = Len(unfold[last.arg][1])

\* The dataset whose entries name themselves: entry idx of variable v is
\* the pair (v, idx).  Unfolding it shows which entry each cell of
\* unfold[a] was taken from.
LabelData ==
    [v \in DOMAIN dims |->
        [idx \in Indices(ShapeOf(dims, len, v)) |-> [v |-> v, idx |-> idx]]]

UnfoldRefs(a) == xr_unfold(vars, dims, len, LabelData, a).m

\* For each row of khatri_rao(a): the variable of its block and the row
\* indices of the factor matrices multiplied in it, i.e. the index tuple
\* over the variable's other axes in declared order.
RECURSIVE KrRowRefs(_, _)
KrRowRefs(vs, a) ==
    IF vs = <<>> THEN <<>>
    ELSE LET v == Head(vs)
             nrows == [j \in DOMAIN OtherFactors(v, a) |-> Len(OtherFactors(v, a)[j])]
         IN  (IF a \in Range(dims[v])
              THEN [k \in 1 .. Prod(nrows) |-> [v |-> v, others |-> Unravel(k - 1, nrows)]]
              ELSE <<>>) \o KrRowRefs(Tail(vs), a)

\* C2: row k of khatri_rao(a) and column k of unfold[a] refer to the same
\* variable and the same index tuple over its other axes, and row r of
\* unfold[a] holds the entries at position r of axis a (the axis xr_unfold
\* moves to the rows is a).
C2_RowsMatchColumns ==
    (last.op = "khatri_rao" /\ last.out = "ok") =>
        LET a == last.arg
            U == UnfoldRefs(a)
            K == KrRowRefs(vars, a)
        IN  /\ Len(K) = Len(U[1])
            /\ \A r \in DOMAIN U : \A k \in DOMAIN K :
                  /\ U[r][k].v = K[k].v
                  /\ Remove(U[r][k].idx, Index(dims[K[k].v], a)) = K[k].others
                  /\ U[r][k].idx[Index(dims[K[k].v], a) + 1] = r - 1

RECURSIVE Repeat(_, _)
Repeat(s, n) == IF n = 0 THEN <<>> ELSE s \o Repeat(s, n - 1)

\* C3: in every sweep perform_CP enters, every axis is visited once in
\* enumeration order and its factor matrix is written with the solution.
C3_SweepWritesEveryAxis ==
    last.op = "perform_CP" =>
        /\ last.out # "NameError"
        /\ last.writes = Repeat(DimList(vars, dims, <<>>), last.sweeps)

AllFinite == \A v \in DOMAIN data : \A i \in DOMAIN data[v] : data[v][i].fin

\* C4: perform_CP called on an object that initialize has just set up, over
\* a fully finite dataset, ends Converged or IterationLimitReached after at
\* most maxiter sweeps.
C4_TerminalState ==
    [][(/\ last.op = "initialize" /\ last.out = "None" /\ AllFinite
        /\ last'.op = "perform_CP")
       => (/\ last'.out \in {"Converged", "IterationLimitReached"}
           /\ last'.sweeps <= last'.maxiter)]_vv

\* the squared reconstruction error over the observed entries, and the
\* squared norm of the observed entries, of one variable
Recon(v) == to_tensor(to_CPTensor(v))
Observed(v) == {i \in DOMAIN data[v] : data[v][i].fin}
MaskedError(v) == SumFn([i \in Observed(v) |-> Sq(Recon(v)[i] - data[v][i].val)], Observed(v))
ObservedNorm(v) == SumFn([i \in Observed(v) |-> Sq(data[v][i].val)], Observed(v))
TotalError == SumFn([v \in DOMAIN data |-> MaskedError(v)], DOMAIN data)
TotalNorm == SumFn([v \in DOMAIN data |-> ObservedNorm(v)], DOMAIN data)

\* C5: calcR2X() returns 1 - (sum of the variables' masked squared errors)
\* / (sum of the variables' observed squared norms).
C5_OverallScore ==
    (last.op = "calcR2X" /\ last.arg = "") =>
        /\ last.out = "ok"
        /\ last.res.kind = R2X(TotalError, TotalNorm).kind
        /\ last.res.top * TotalNorm = TotalError * last.res.bot

\* calcR2X() has returned for two variables, and the score differs from the
\* unweighted mean of the two per-variable scores
C5_Witness ==
    /\ last.op = "calcR2X" /\ last.arg = "" /\ last.out = "ok"
    /\ Len(vars) = 2
    /\ \A v \in DOMAIN data : ObservedNorm(v) > 0
    /\ last.res.kind = "num"
    /\ LET a == vars[1]
           b == vars[2]
       IN  last.res.top * (2 * ObservedNorm(a) * ObservedNorm(b))
             # last.res.bot * (MaskedError(a) * ObservedNorm(b) + MaskedError(b) * ObservedNorm(a))

\* C6: calcR2X(v) on a variable with no finite entry fails with
\* DegenerateInput and leaves the factor state unchanged.
C6_DegenerateInput ==
    (last.op = "calcR2X" /\ ArgIsVar /\ Observed(last.arg) = {}) =>
        /\ last.out = "DegenerateInput"
        /\ x = last.pre

\* C7: initialize with a method other than "ones" and "svd" fails with
\* InvalidArgument.
C7_InvalidMethod ==
    (last.op = "initialize" /\ last.arg \notin {"ones", "svd"}) =>
        last.out = "InvalidArgument"

\* C8: initialize("svd") returns having, for every axis, written the first
\* min(rank, length) left singular vectors of unfold[axis] to the first
\* columns, kept the other columns, and set every weight to 1.
C8_SvdInitialization ==
    (last.op = "initialize" /\ last.arg = "svd") =>
        /\ last.out = "None"
        /\ x.w = OnesWeight
        /\ \A a \in DOMAIN len :
              /\ Len(svd_U(unfold[a])) = len[a]
              /\ \A i \in 1 .. len[a] : \A r \in 1 .. rank :
                    x.fac[a][i][r] = IF r <= Min(rank, len[a])
                                     THEN svd_U(unfold[a])[i][r]
                                     ELSE last.pre.fac[a][i][r]

\* C9: reconstruct() returns one reconstructed array and one R2X score per
\* variable of the dataset.
C9_ReconstructAll ==
    (last.op = "reconstruct" /\ last.arg = "") =>
        /\ last.out = "ok"
        /\ DOMAIN last.res.data = DOMAIN dims
        /\ DOMAIN last.res.R2X = DOMAIN dims
        /\ \A v \in DOMAIN dims : last.res.data[v] = Recon(v)

\* C10: no call changes the dataset's arrays or the cached unfoldings.
C10_DataAndCacheFrozen == [][data' = data /\ unfold' = unfold]_vv

\* a score has been computed, after an svd initialization changed the
\* factors, over a dataset with a missing entry
C10_Witness ==
    /\ last.op = "calcR2X" /\ last.out = "ok"
    /\ ~AllFinite
    /\ x.fac # initialize_ones(x.fac)
====
